---- MODULE Spec2Model ----
(***************************************************************************)
(* SAASS Scheduler: the sequential group-assignment loop of                *)
(* scheduler.py (run_scheduler, "batch" runs) and the upload / seeding /   *)
(* "Run Optimization" handler of app.py ("incremental" runs).              *)
(*                                                                         *)
(* Students are the roster indices 1..N (the code uses 0..N-1), groups are *)
(* 1..G.  The interaction matrix is the full N x N matrix of the code,     *)
(* diagonal included.  The remote solver is a nondeterministic choice      *)
(* among all assignments that satisfy the constraints the code adds to the *)
(* Pyomo model (any incumbent may be returned at the time limit), or a     *)
(* failure.                                                                *)
(***************************************************************************)
EXTENDS Integers, Sequences, FiniteSets, TLC

VARIABLES
    mode,               \* "batch": run_scheduler; "incremental": app.py
    pc,                 \* position of the run
    student_afscs,      \* roster: category of each student, by index
    interaction_matrix, \* the ledger M
    seeded_matrix,      \* the ledger as it was when the run started
    prior_key,          \* last (Course, Group) key of the prior CSV processed
    prior_groups_done,  \* groups of the prior CSV processed so far
    prior_sessions,     \* <<course, i, j>>: the rows processed so far put the
                        \* roster students i < j into one group of the course
    cfg,                \* the session configuration of the run
    course_idx,         \* index into course_numbers of the current session
    model,              \* the optimisation model built for the current session
    result,             \* what the solver returned for the current session
    courseGroups,       \* the groups extracted from the solver's result
    update_log,         \* sessions whose pairings were added to the ledger
    writer,             \* sheets handed to the output writer so far
    summary_rows,       \* number of rows of the summary table
    returned            \* what the run handed back to its caller

vars == <<mode, pc, student_afscs, interaction_matrix, seeded_matrix, prior_key,
          prior_groups_done, prior_sessions, cfg, course_idx, model, result,
          courseGroups, update_log, writer, summary_rows, returned>>

-----------------------------------------------------------------------------
(* Program constants of run_scheduler. *)

num_groups == 4
max_interaction == 4
penalty_threshold == 3
\* penalty_weight = 0.25, kept as the fraction num / den
penalty_weight == [num |-> 1, den |-> 4]
afsc_limit == 2
all_course_numbers == <<601, 600, 627, 632, 628, 633, 644, 667, 665, 660>>

(* Bounds of the model. *)

\* run_scheduler walks the first NumCourses entries of its course list
NumCourses == 5
\* (Course, Group) groups of the prior grouping CSV that the seeding loop walks
MaxPriorGroups == 2
\* rows the prior grouping CSV holds for one (Course, Group) key
MaxGroupRows == 2

course_numbers == SubSeq(all_course_numbers, 1, NumCourses)

(* Rosters handed to run_scheduler (the AFSC column). *)
BatchRosters == { <<"A", "A", "B", "B", "C">>, <<"A", "B", "C">> }

(* Rosters uploaded to the app (the Job Type column); <<>>: none uploaded. *)
AppRosters == { <<"A", "A", "B">>, <<>> }

(* Values entered in the form of the app. *)
GroupSizeInputs == { <<2, 1>>, <<1, 2>>, <<1, 1, 1>>, <<1, 1>>, <<2, 2>>, <<3, 1>> }
LimitInputs == {1, 2}
EmailInputs == {"", "user@example.org"}

(* (Course, Group) values of a prior grouping CSV. *)
PriorCourses == {1, 2}
PriorGroups == {1, 2}

None == 0
NoModel == [built |-> FALSE]
NoResult == [status |-> "none"]
NoGroups == <<>>
NoCfg == [set |-> FALSE, group_sizes |-> <<>>]
NothingReturned == [file |-> "", sheets |-> {}]

-----------------------------------------------------------------------------
(* Helpers over the roster. *)

num_students == Len(student_afscs)
students == 1..num_students
unique_afscs == {student_afscs[s] : s \in students}

RECURSIVE SumSeq(_)
SumSeq(q) == IF q = <<>> THEN 0 ELSE Head(q) + SumSeq(Tail(q))

ZeroMatrix(n) == [i \in 1..n |-> [j \in 1..n |-> 0]]

\* group_sizes = [base_size + 1 if i < extra else base_size for i in range(4)]
EvenGroupSizes(n) ==
    [g \in 1..num_groups |->
        IF g - 1 < n % num_groups THEN (n \div num_groups) + 1 ELSE n \div num_groups]

-----------------------------------------------------------------------------
(* Assignment Model Builder: scheduler.py lines 52-98. *)

\* delta = (interaction_matrix == 0).astype(int)
Delta(M) == [i \in DOMAIN M |-> [j \in DOMAIN M |-> IF M[i][j] = 0 THEN 1 ELSE 0]]

\* (variant: the penalty test written with > in place of >=)
PenalizeStrict(M, threshold) ==
    [i \in DOMAIN M |-> [j \in DOMAIN M |-> IF M[i][j] > threshold THEN 1 ELSE 0]]

\* penalize = (interaction_matrix >= penalty_threshold).astype(int)
Penalize(M, threshold) ==
    [i \in DOMAIN M |-> [j \in DOMAIN M |-> IF M[i][j] >= threshold THEN 1 ELSE 0]]

\* (variant: the cap test written with > in place of >=)
CapLimitPairsStrict(M, cap) ==
    {p \in (DOMAIN M) \X (DOMAIN M) : p[1] < p[2] /\ M[p[1]][p[2]] > cap}

\* the pairs for which model.cap_limit holds w[i, j, g] == 0 constraints
CapLimitPairs(M, cap) ==
    {p \in (DOMAIN M) \X (DOMAIN M) : p[1] < p[2] /\ M[p[1]][p[2]] >= cap}

\* (variant: delta, penalize and the capped pairs computed once, before the loop)
BuildModelHoisted(M, c) ==
    [built |-> TRUE,
     ledger |-> ZeroMatrix(Len(M)),
     delta |-> Delta(ZeroMatrix(Len(M))),
     penalize |-> Penalize(ZeroMatrix(Len(M)), c.penalty_threshold),
     group_sizes |-> c.group_sizes,
     afsc_cap |-> c.category_cap,
     cap_limit |-> CapLimitPairs(ZeroMatrix(Len(M)), c.max_interaction)]

\* "ledger" is the snapshot of interaction_matrix the builder read
BuildModel(M, c) ==
    [built |-> TRUE,
     ledger |-> M,
     delta |-> Delta(M),
     penalize |-> Penalize(M, c.penalty_threshold),
     group_sizes |-> c.group_sizes,
     afsc_cap |-> c.category_cap,
     cap_limit |-> CapLimitPairs(M, c.max_interaction)]

GroupsOf(m) == 1..Len(m.group_sizes)

\* model.x = Var(model.S, model.G, within=Binary) with model.assign_once:
\* the binary matrices with exactly one 1 in every row
XOf(a, G) == [s \in DOMAIN a |-> [g \in G |-> IF a[s] = g THEN 1 ELSE 0]]
AssignOnceX(S, G) == {XOf(a, G) : a \in [S -> G]}

\* (variant: the sizes read one group off)
GroupSizeShifted(x, m) ==
    \A g \in 1..Len(m.group_sizes) :
        Cardinality({s \in DOMAIN x : x[s][g] = 1})
            = m.group_sizes[(g % Len(m.group_sizes)) + 1]

\* model.group_size: sum(x[s, g] for s in students) == group_sizes[g]
GroupSizeOK(x, m) ==
    \A g \in GroupsOf(m) : Cardinality({s \in DOMAIN x : x[s][g] = 1}) = m.group_sizes[g]

\* (variant: the per-AFSC limit one too loose)
AfscLimitLoose(x, m) ==
    \A g \in 1..Len(m.group_sizes) : \A afsc \in unique_afscs :
        Cardinality({i \in DOMAIN x : student_afscs[i] = afsc /\ x[i][g] = 1})
            <= m.afsc_cap + 1

\* model.afsc_limit: sum(x[i, g] for i in indices) <= cap, per group and AFSC
AfscLimitOK(x, m) ==
    \A g \in GroupsOf(m) : \A afsc \in unique_afscs :
        Cardinality({i \in DOMAIN x : student_afscs[i] = afsc /\ x[i][g] = 1}) <= m.afsc_cap

\* model.lin_le, model.lin_ge: w <= x[i,g], w <= x[j,g], w >= x[i,g] + x[j,g] - 1
W(x, i, j, g) == IF x[i][g] + x[j][g] - 1 >= 1 THEN 1 ELSE 0

\* objective_rule, times penalty_weight.den to stay in the integers:
\* sum(delta[i,j] * w[i,j,g] - penalty_weight * penalize[i,j] * w[i,j,g]
\*     for i in S for j in S if i < j for g in G)
ObjectiveValue(x, m) ==
    SumSeq([i \in 1..Len(x) |->
        SumSeq([j \in 1..Len(x) |->
            IF i < j
            THEN SumSeq([g \in 1..Len(m.group_sizes) |->
                     penalty_weight.den * m.delta[i][j] * W(x, i, j, g)
                       - penalty_weight.num * m.penalize[i][j] * W(x, i, j, g)])
            ELSE 0])])

\* (variant: the cap constraints are never added to the model)
CapLimitSkipped(x, m) == TRUE

\* model.cap_limit: w[i, j, g] == 0 for every pair at the cap
CapLimitOK(x, m) ==
    \A p \in m.cap_limit : \A g \in GroupsOf(m) : W(x, p[1], p[2], g) = 0

Feasible(x, m) == GroupSizeOK(x, m) /\ AfscLimitOK(x, m) /\ CapLimitOK(x, m)

\* Solver Gateway: any feasible assignment, or no assignment at all
SolverResults(m) ==
    LET F == {x \in AssignOnceX(students, GroupsOf(m)) : Feasible(x, m)}
    IN  {[status |-> "ok", x |-> x] : x \in F}
        \cup {[status |-> "failure", x |-> <<>>]}
        \cup (IF F = {} THEN {[status |-> "infeasible", x |-> <<>>]} ELSE {})

-----------------------------------------------------------------------------
(* Extraction and ledger update: scheduler.py lines 105-117. *)

\* (variant: the comparison of the extraction inverted)
ExtractGroupInverted(x, g) ==
    SelectSeq([s \in 1..Len(x) |-> s], LAMBDA s : 2 * x[s][g] < 1)

\* courseGroups[g]: the students s, in index order, with value(model.x[s, g]) > 0.5
ExtractGroup(x, g) ==
    SelectSeq([s \in 1..Len(x) |-> s], LAMBDA s : 2 * x[s][g] > 1)

PosPairs(group) == {p \in (1..Len(group)) \X (1..Len(group)) : p[1] < p[2]}

\* (variant: only interaction_matrix[a, b] += 1, the mirrored entry forgotten)
SessionIncrementOneWay(group, a, b) ==
    Cardinality({p \in PosPairs(group) : group[p[1]] = a /\ group[p[2]] = b})

\* what the double loop over one group adds to interaction_matrix[a, b]
SessionIncrement(group, a, b) ==
    Cardinality({p \in PosPairs(group) : group[p[1]] = a /\ group[p[2]] = b})
    + Cardinality({p \in PosPairs(group) : group[p[1]] = b /\ group[p[2]] = a})

\* the loop over the groups of the session
RECURSIVE SumOver(_, _, _)
SumOver(groups, a, b) ==
    IF groups = <<>> THEN 0
    ELSE SessionIncrement(Head(groups), a, b) + SumOver(Tail(groups), a, b)

\* (variant: the entries of a grouped pair set to 1 instead of raised by 1)
RecordSessionAssign(M, groups) ==
    [a \in DOMAIN M |-> [b \in DOMAIN M |->
        IF SumOver(groups, a, b) > 0 THEN 1 ELSE M[a][b]]]

RecordSession(M, groups) ==
    [a \in DOMAIN M |-> [b \in DOMAIN M |->
        M[a][b] + SumOver(groups, a, b)]]

-----------------------------------------------------------------------------
(* Seeding from the prior grouping CSV: app.py lines 170-185. *)

\* name_to_index.get(name): a student is named by its roster index, and any
\* other name is not in the dictionary
name_to_index(name) == IF name \in students THEN name ELSE None

\* names a row of the prior CSV may hold: the roster's, and one that is not
PriorNames == 1..(num_students + 1)

PriorRows == UNION {[1..n -> PriorNames] : n \in 1..MaxGroupRows}

PriorKeys == PriorCourses \X PriorGroups

\* groupby(["Course", "Group"]) walks the keys in sorted order
KeyBefore(k1, k2) == k1[1] < k2[1] \/ (k1[1] = k2[1] /\ k1[2] < k2[2])

\* what the double loop over one group of the CSV adds to interaction_matrix[a, b]
SeedIncrement(names, a, b) ==
    Cardinality({p \in PosPairs(names) :
        name_to_index(names[p[1]]) = a /\ name_to_index(names[p[2]]) = b})
    + Cardinality({p \in PosPairs(names) :
        name_to_index(names[p[1]]) = b /\ name_to_index(names[p[2]]) = a})

\* the pairs of roster students that one group of the CSV, of the given
\* course, holds together
GroupedPairs(course, names) ==
    {<<course, i, j>> : i \in students, j \in students} \cap
    {t \in PriorCourses \X PriorNames \X PriorNames :
        /\ t[2] < t[3]
        /\ \E k \in DOMAIN names : name_to_index(names[k]) = t[2]
        /\ \E k \in DOMAIN names : name_to_index(names[k]) = t[3]}

SeedFromGroup(M, names) ==
    [a \in DOMAIN M |-> [b \in DOMAIN M |-> M[a][b] + SeedIncrement(names, a, b)]]

-----------------------------------------------------------------------------
(* Initial states. *)

BatchCfg(n) ==
    [set |-> TRUE,
     group_sizes |-> EvenGroupSizes(n),
     category_cap |-> afsc_limit,
     max_interaction |-> max_interaction,
     penalty_threshold |-> penalty_threshold]

\* run_scheduler(df, email): lines 12-36
InitBatch ==
    /\ mode = "batch"
    /\ student_afscs \in BatchRosters
    /\ interaction_matrix = ZeroMatrix(Len(student_afscs))
    /\ seeded_matrix = ZeroMatrix(Len(student_afscs))
    /\ cfg = BatchCfg(Len(student_afscs))
    /\ pc = "build"
    /\ course_idx = 1
    /\ prior_key = <<0, 0>>
    /\ prior_groups_done = 0
    /\ prior_sessions = {}

\* app.py up to line 172: the roster is loaded, the ledger is zero-filled
InitApp ==
    /\ mode = "incremental"
    /\ student_afscs \in AppRosters
    /\ interaction_matrix = ZeroMatrix(Len(student_afscs))
    /\ seeded_matrix = ZeroMatrix(Len(student_afscs))
    /\ cfg = NoCfg
    /\ pc = "seed"
    /\ course_idx = 0
    /\ prior_key = <<0, 0>>
    /\ prior_groups_done = 0
    /\ prior_sessions = {}

Init ==
    /\ (InitBatch \/ InitApp)
    /\ model = NoModel
    /\ result = NoResult
    /\ courseGroups = NoGroups
    /\ update_log = <<>>
    /\ writer = {}
    /\ summary_rows = 0
    /\ returned = NothingReturned

-----------------------------------------------------------------------------
(* run_scheduler: one action per stage of the loop body. *)

\* lines 52-98: the model of the session is built from the current ledger
Build ==
    /\ mode = "batch" /\ pc = "build"
    /\ course_idx <= Len(course_numbers)
    /\ model' = BuildModel(interaction_matrix, cfg)
    /\ pc' = "solve"
    /\ UNCHANGED <<mode, student_afscs, interaction_matrix, seeded_matrix, prior_key,
                   prior_groups_done, prior_sessions, cfg, course_idx, result, courseGroups, update_log, writer,
                   summary_rows, returned>>

\* lines 100-103: solver_manager.solve(model, opt=solver)
Solve ==
    /\ mode = "batch" /\ pc = "solve"
    /\ result' \in SolverResults(model)
    /\ pc' = "extract"
    /\ UNCHANGED <<mode, student_afscs, interaction_matrix, seeded_matrix, prior_key,
                   prior_groups_done, prior_sessions, cfg, course_idx, model, courseGroups, update_log, writer,
                   summary_rows, returned>>

\* (variant: a failed solve read as "nobody assigned", and the loop goes on)
RaiseSwallowed ==
    /\ mode = "batch" /\ pc = "extract"
    /\ result.status # "ok"
    /\ courseGroups' = [g \in GroupsOf(model) |-> <<>>]
    /\ pc' = "update"
    /\ UNCHANGED <<mode, student_afscs, interaction_matrix, seeded_matrix, prior_key,
                   prior_groups_done, prior_sessions, cfg, course_idx, model, result, update_log, writer,
                   summary_rows, returned>>

\* lines 103, 108: without a solution the variables of the model hold no value
\* and value(model.x[s, g]) raises; nothing in run_scheduler catches it
Raise ==
    /\ mode = "batch" /\ pc = "extract"
    /\ result.status # "ok"
    /\ pc' = "raised"
    /\ UNCHANGED <<mode, student_afscs, interaction_matrix, seeded_matrix, prior_key,
                   prior_groups_done, prior_sessions, cfg, course_idx, model, result, courseGroups, update_log, writer,
                   summary_rows, returned>>

\* lines 105-109
Extract ==
    /\ mode = "batch" /\ pc = "extract"
    /\ result.status = "ok"
    /\ courseGroups' = [g \in GroupsOf(model) |-> ExtractGroup(result.x, g)]
    /\ pc' = "update"
    /\ UNCHANGED <<mode, student_afscs, interaction_matrix, seeded_matrix, prior_key,
                   prior_groups_done, prior_sessions, cfg, course_idx, model, result, update_log, writer,
                   summary_rows, returned>>

\* the sheets lines 119-134 hand to the writer for one course: the matrix and
\* one row per student of the groups (a sheet is kept as its kind, course and
\* number of rows)
SessionSheets(course, groups) ==
    { <<"Matrix", course, num_students>>,
      <<"Groups", course, SumSeq([g \in DOMAIN groups |-> Len(groups[g])])>> }

\* lines 111-184: the ledger update (111-117), then the sheets, the summary
\* row and the plots of the course, up to the loop head.  The variables of the
\* loop body are dead until the next iteration assigns them: cleared here.
LedgerUpdate ==
    /\ mode = "batch" /\ pc = "update"
    /\ interaction_matrix' = RecordSession(interaction_matrix, courseGroups)
    /\ update_log' = Append(update_log, course_idx)
    /\ writer' = writer \cup SessionSheets(course_numbers[course_idx], courseGroups)
    /\ summary_rows' = summary_rows + 1
    /\ course_idx' = course_idx + 1
    /\ model' = NoModel /\ result' = NoResult /\ courseGroups' = NoGroups
    /\ pc' = "build"
    /\ UNCHANGED <<mode, student_afscs, seeded_matrix, prior_key, prior_groups_done, prior_sessions,
                   cfg, returned>>

\* lines 186-190: the summary sheet, writer.close() and the return
Finish ==
    /\ mode = "batch" /\ pc = "build"
    /\ course_idx > Len(course_numbers)
    /\ writer' = writer \cup {<<"Summary", 0, summary_rows>>}
    /\ returned' = [file |-> "AY26_Scheduler_Summary.xlsx", sheets |-> writer']
    /\ pc' = "returned"
    /\ UNCHANGED <<mode, student_afscs, interaction_matrix, seeded_matrix, prior_key,
                   prior_groups_done, prior_sessions, cfg, course_idx, model, result, courseGroups, update_log,
                   summary_rows>>

-----------------------------------------------------------------------------
(* app.py: seeding of the ledger and the "Run Optimization" handler. *)

\* lines 178-185: one iteration of the loop over the groups of the prior CSV
SeedGroup ==
    /\ mode = "incremental" /\ pc = "seed"
    /\ num_students > 0
    /\ prior_groups_done < MaxPriorGroups
    /\ \E key \in PriorKeys : \E names \in PriorRows :
        /\ KeyBefore(prior_key, key)
        /\ prior_key' = key
        /\ interaction_matrix' = SeedFromGroup(interaction_matrix, names)
        /\ prior_sessions' = prior_sessions \cup GroupedPairs(key[1], names)
    /\ prior_groups_done' = prior_groups_done + 1
    /\ UNCHANGED <<mode, pc, student_afscs, seeded_matrix, cfg, course_idx, model, result,
                   courseGroups, update_log, writer, summary_rows, returned>>

\* lines 173-187: the loop is over (or there was no prior CSV to walk); its
\* loop variables are dead from here on and are cleared
SeedDone ==
    /\ mode = "incremental" /\ pc = "seed"
    /\ pc' = "ready"
    /\ prior_key' = <<0, 0>>
    /\ prior_groups_done' = 0
    /\ UNCHANGED prior_sessions
    /\ UNCHANGED <<mode, student_afscs, interaction_matrix, seeded_matrix, cfg,
                   course_idx, model,
                   result, courseGroups, update_log, writer, summary_rows, returned>>

AppCfg(sizes, job_type_limit, max_inter, threshold) ==
    [set |-> TRUE,
     group_sizes |-> sizes,
     category_cap |-> job_type_limit,
     max_interaction |-> max_inter,
     penalty_threshold |-> threshold]

\* (variant: the handler without its test of the group sizes' total)
RunOptimizationUnchecked ==
    /\ mode = "incremental" /\ pc = "ready"
    /\ \E email \in EmailInputs :
        IF email = "" \/ student_afscs = <<>> \/ num_students = 0
        THEN /\ pc' = "not_started"
             /\ UNCHANGED <<cfg, seeded_matrix, course_idx>>
        ELSE \E sizes \in GroupSizeInputs :
             \E job_type_limit \in LimitInputs : \E max_inter \in LimitInputs :
                /\ cfg' = AppCfg(sizes, job_type_limit, max_inter, penalty_threshold)
                /\ seeded_matrix' = interaction_matrix
                /\ course_idx' = 1
                /\ pc' = "build"
    /\ prior_sessions' = {}
    /\ UNCHANGED <<mode, student_afscs, interaction_matrix, prior_key,
                   prior_groups_done, model, result, courseGroups, update_log, writer,
                   summary_rows, returned>>

\* lines 227-265: the button's handler, up to the call of the scheduler (the
\* penalty threshold is left at the value the form starts with, 3; the record
\* of the prior CSV's sessions is not read again and is cleared)
RunOptimization ==
    /\ mode = "incremental" /\ pc = "ready"
    /\ \E email \in EmailInputs :
        IF email = "" \/ student_afscs = <<>> \/ num_students = 0
        THEN /\ pc' = "not_started"
             /\ UNCHANGED <<cfg, seeded_matrix, course_idx>>
        ELSE \E sizes \in GroupSizeInputs :
             IF SumSeq(sizes) # num_students
             THEN /\ pc' = "config_error"
                  /\ cfg' = [set |-> FALSE, group_sizes |-> sizes]
                  /\ UNCHANGED <<seeded_matrix, course_idx>>
             ELSE \E job_type_limit \in LimitInputs : \E max_inter \in LimitInputs :
                    /\ cfg' = AppCfg(sizes, job_type_limit, max_inter, penalty_threshold)
                    /\ seeded_matrix' = interaction_matrix
                    /\ course_idx' = 1
                    /\ pc' = "build"
    /\ prior_sessions' = {}
    /\ UNCHANGED <<mode, student_afscs, interaction_matrix, prior_key,
                   prior_groups_done, model, result, courseGroups, update_log, writer,
                   summary_rows, returned>>

-----------------------------------------------------------------------------
(* run_scheduler_single_course: the single session the handler starts, as   *)
(* the specification describes the orchestrator (BUILD, SUBMIT, EXTRACT,    *)
(* LEDGER_UPDATE, RECORD, and the halt on a failed solve).                  *)

SingleBuild ==
    /\ mode = "incremental" /\ pc = "build"
    /\ IF SumSeq(cfg.group_sizes) # num_students
       THEN pc' = "config_error" /\ UNCHANGED model
       ELSE pc' = "solve" /\ model' = BuildModel(interaction_matrix, cfg)
    /\ UNCHANGED <<mode, student_afscs, interaction_matrix, seeded_matrix, prior_key,
                   prior_groups_done, prior_sessions, cfg, course_idx, result, courseGroups, update_log, writer,
                   summary_rows, returned>>

SingleSubmit ==
    /\ mode = "incremental" /\ pc = "solve"
    /\ result' \in SolverResults(model)
    /\ pc' = "extract"
    /\ UNCHANGED <<mode, student_afscs, interaction_matrix, seeded_matrix, prior_key,
                   prior_groups_done, prior_sessions, cfg, course_idx, model, courseGroups, update_log, writer,
                   summary_rows, returned>>

SingleFail ==
    /\ mode = "incremental" /\ pc = "extract"
    /\ result.status # "ok"
    /\ returned' = [file |-> result.status, sheets |-> writer]
    /\ pc' = "failed"
    /\ UNCHANGED <<mode, student_afscs, interaction_matrix, seeded_matrix, prior_key,
                   prior_groups_done, prior_sessions, cfg, course_idx, model, result, courseGroups, update_log, writer,
                   summary_rows>>

SingleExtract ==
    /\ mode = "incremental" /\ pc = "extract"
    /\ result.status = "ok"
    /\ courseGroups' = [g \in GroupsOf(model) |-> ExtractGroup(result.x, g)]
    /\ pc' = "update"
    /\ UNCHANGED <<mode, student_afscs, interaction_matrix, seeded_matrix, prior_key,
                   prior_groups_done, prior_sessions, cfg, course_idx, model, result, update_log, writer,
                   summary_rows, returned>>

SingleLedgerUpdate ==
    /\ mode = "incremental" /\ pc = "update"
    /\ interaction_matrix' = RecordSession(interaction_matrix, courseGroups)
    /\ update_log' = Append(update_log, course_idx)
    /\ pc' = "record"
    /\ UNCHANGED <<mode, student_afscs, seeded_matrix, prior_key, prior_groups_done, prior_sessions,
                   cfg, course_idx, model, result, courseGroups, writer, summary_rows,
                   returned>>

SingleRecord ==
    /\ mode = "incremental" /\ pc = "record"
    /\ writer' = writer \cup
          {<<"Groups", course_idx, SumSeq([g \in DOMAIN courseGroups |-> Len(courseGroups[g])])>>}
    /\ returned' = [file |-> "assignments", sheets |-> writer']
    /\ pc' = "returned"
    /\ UNCHANGED <<mode, student_afscs, interaction_matrix, seeded_matrix, prior_key,
                   prior_groups_done, prior_sessions, cfg, course_idx, model, result, courseGroups, update_log,
                   summary_rows>>

NextApp == SeedGroup \/ SeedDone \/ RunOptimization

NextSingle ==
    \/ SingleBuild \/ SingleSubmit \/ SingleFail
    \/ SingleExtract \/ SingleLedgerUpdate \/ SingleRecord

NextBatch == Build \/ Solve \/ Raise \/ Extract \/ LedgerUpdate \/ Finish

Next == NextBatch \/ NextApp \/ NextSingle

Spec == Init /\ [][Next]_vars

-----------------------------------------------------------------------------
(* Properties. *)

Range(q) == {q[k] : k \in DOMAIN q}

\* students i and j sit in one group of the extracted groups
Together(groups, i, j) ==
    \E g \in DOMAIN groups : i \in Range(groups[g]) /\ j \in Range(groups[g])

\* a session was solved and its groups extracted
Extracted == courseGroups # NoGroups

Halted == pc \in {"raised", "failed"}

MaxOf(a, b) == IF a >= b THEN a ELSE b

UpTo(n) == [k \in 1..n |-> k]

\* C1: in every solved session, no pair whose ledger count before the session
\* was at or above max_interaction sits in one group of the extracted groups.
\* (At pc = "update" the ledger is still the one from before the session.)
C1_HardCapPerSession ==
    pc = "update" =>
        \A i \in students : \A j \in students :
            (i < j /\ interaction_matrix[i][j] >= cfg.max_interaction)
                => ~Together(courseGroups, i, j)

C1_Witness ==
    /\ mode = "batch" /\ pc = "update"
    /\ \E i \in students : \E j \in students :
        i < j /\ interaction_matrix[i][j] >= cfg.max_interaction

\* C2 as stated: once the run has its max_interaction, no ledger entry of two
\* distinct students, seeded history included, exceeds max_interaction.
C2_AbsoluteCeiling ==
    cfg.set =>
        \A i \in students : \A j \in students :
            i # j => interaction_matrix[i][j] <= cfg.max_interaction

\* C2 amended: no ledger entry of two distinct students exceeds the larger of
\* max_interaction and the count the seeded history gave it (zero in a batch
\* run): the sessions of the run never add to an entry at or above the cap.
C2_CeilingAboveSeed ==
    cfg.set =>
        \A i \in students : \A j \in students :
            i # j => interaction_matrix[i][j]
                        <= MaxOf(seeded_matrix[i][j], cfg.max_interaction)

C2_Witness ==
    /\ mode = "batch" /\ pc = "returned"
    /\ \E i \in students : \E j \in students :
        i # j /\ interaction_matrix[i][j] = cfg.max_interaction

\* C3: the ledger update of session k happens exactly once, after the solver
\* returned the session's result and before the model of session k+1 is
\* built: whenever a model is in use it was built from the ledger as it is,
\* sessions 1..k-1 are the ones recorded (each once, in order), and the ledger
\* changes only in the update step of a solved session, which records it.
C3_LedgerCurrent ==
    /\ cfg.set /\ pc \in {"solve", "extract", "update"} =>
        /\ model.built
        /\ model.ledger = interaction_matrix
        /\ model.delta = Delta(interaction_matrix)
        /\ model.penalize = Penalize(interaction_matrix, cfg.penalty_threshold)
        /\ model.cap_limit = CapLimitPairs(interaction_matrix, cfg.max_interaction)
        /\ update_log = UpTo(course_idx - 1)
    /\ cfg.set /\ pc = "build" => update_log = UpTo(course_idx - 1)
    /\ pc \in {"record", "returned"} /\ mode = "incremental" =>
        update_log = UpTo(course_idx)

C3_UpdateStep ==
    (cfg.set /\ (interaction_matrix' # interaction_matrix \/ update_log' # update_log))
        => /\ pc = "update" /\ result.status = "ok"
           /\ update_log' = Append(update_log, course_idx)
           /\ \A i \in students : \A j \in students :
                (i # j /\ Together(courseGroups, i, j))
                    => interaction_matrix'[i][j] > interaction_matrix[i][j]

C3_Ordering == [](C3_LedgerCurrent) /\ [][C3_UpdateStep]_vars

C3_Witness ==
    /\ mode = "batch" /\ pc = "solve" /\ course_idx = 2
    /\ \E i \in students : \E j \in students : i # j /\ model.delta[i][j] = 0

\* C4: when the solver returns Infeasible or Failure the run halts with the
\* session failed: the step leaves ledger, written records and update log as
\* they were, the ledger is the one the session's model was built from, no
\* sheet of the session is written, and the halted run takes no further step.
C4_HaltedState ==
    Halted =>
        /\ result.status \in {"infeasible", "failure"}
        /\ interaction_matrix = model.ledger
        /\ update_log = UpTo(course_idx - 1)
        /\ \A sheet \in writer :
             sheet[2] # (IF mode = "batch" THEN course_numbers[course_idx] ELSE course_idx)
        /\ Cardinality(writer) = (IF mode = "batch" THEN 2 ELSE 1) * (course_idx - 1)

C4_FailStep ==
    /\ (pc = "extract" /\ result.status # "ok") =>
          /\ pc' \in {"raised", "failed"}
          /\ UNCHANGED <<interaction_matrix, writer, update_log, model, course_idx,
                         courseGroups>>
    /\ ~Halted

C4_FailureHalts == [](C4_HaltedState) /\ [][C4_FailStep]_vars

C4_Witness ==
    /\ mode = "batch" /\ pc = "raised" /\ course_idx > 1
    /\ \E i \in students : \E j \in students : i # j /\ interaction_matrix[i][j] > 0

\* C5: when a later session of a multi-session run fails in the solver, the
\* run ends by returning the records of the sessions before it.
C5_PriorResultsReturned ==
    (Halted /\ course_idx > 1) =>
        /\ returned # NothingReturned
        /\ writer \subseteq returned.sheets

\* C6: in every solved session each student of the roster is in exactly one
\* place of the extracted groups.
C6_SingleAssignment ==
    Extracted =>
        \A s \in students :
            Cardinality({p \in (DOMAIN courseGroups) \X (1..num_students) :
                p[2] \in DOMAIN courseGroups[p[1]] /\ courseGroups[p[1]][p[2]] = s}) = 1

C6_Witness == mode = "batch" /\ pc = "update" /\ course_idx = 2 /\ num_students = 5

\* C7 as stated: every extracted group has exactly its configured size, and
\* the sizes are positive integers that sum to the roster size.
C7_ExactPositiveSizes ==
    Extracted =>
        /\ DOMAIN courseGroups = DOMAIN cfg.group_sizes
        /\ \A g \in DOMAIN courseGroups : Len(courseGroups[g]) = cfg.group_sizes[g]
        /\ \A g \in DOMAIN cfg.group_sizes : cfg.group_sizes[g] >= 1
        /\ SumSeq(cfg.group_sizes) = num_students

\* C7 amended: every extracted group has exactly its configured size; the
\* sizes are non-negative integers that sum to the roster size, and positive
\* unless run_scheduler is given fewer students than its four groups.
C7_ExactSizes ==
    Extracted =>
        /\ DOMAIN courseGroups = DOMAIN cfg.group_sizes
        /\ \A g \in DOMAIN courseGroups : Len(courseGroups[g]) = cfg.group_sizes[g]
        /\ \A g \in DOMAIN cfg.group_sizes :
             /\ cfg.group_sizes[g] >= 0
             /\ (mode = "incremental" \/ num_students >= num_groups)
                    => cfg.group_sizes[g] >= 1
        /\ SumSeq(cfg.group_sizes) = num_students

C7_Witness ==
    /\ mode = "batch" /\ pc = "update" /\ num_students = 5
    /\ Len(courseGroups[1]) = 2 /\ Len(courseGroups[4]) = 1

\* C8: in every solved session, every group holds at most category_cap
\* students of any one category of the roster.
C8_CategoryCap ==
    Extracted =>
        \A g \in DOMAIN courseGroups : \A c \in unique_afscs :
            Cardinality({s \in Range(courseGroups[g]) : student_afscs[s] = c})
                <= cfg.category_cap

C8_Witness ==
    /\ Extracted /\ cfg.category_cap = 1
    /\ \E g \in DOMAIN courseGroups : Len(courseGroups[g]) = 2

\* C9: group sizes that do not sum to the roster size are rejected as a
\* configuration error: no model is built and nothing is submitted for them.
C9_ConfigErrorFirst ==
    /\ (cfg.group_sizes # <<>> /\ SumSeq(cfg.group_sizes) # num_students)
          => pc = "config_error"
    /\ (model.built \/ result.status # "none")
          => SumSeq(cfg.group_sizes) = num_students
    /\ pc = "config_error"
          => model = NoModel /\ result = NoResult /\ SumSeq(cfg.group_sizes) # num_students

C9_Witness == pc = "config_error" /\ cfg.group_sizes = <<2, 2>>

\* C10: the ledger is symmetric in every reachable state.
C10_LedgerSymmetry ==
    \A i \in students : \A j \in students :
        interaction_matrix[i][j] = interaction_matrix[j][i]

C10_Witness ==
    /\ mode = "batch" /\ update_log # <<>>
    /\ \E i \in students : \E j \in students : i # j /\ interaction_matrix[i][j] > 0

\* C11: no entry of the ledger ever decreases, and the update of a solved
\* session adds exactly 1 to M[i][j] and M[j][i] of every pair placed in one
\* group and leaves every other entry as it was.
C11_Step ==
    \A i \in students : \A j \in students :
        /\ interaction_matrix'[i][j] >= interaction_matrix[i][j]
        /\ (i # j /\ update_log' # update_log) =>
              /\ interaction_matrix'[i][j]
                    = interaction_matrix[i][j]
                        + (IF Together(courseGroups, i, j) THEN 1 ELSE 0)
              /\ interaction_matrix'[j][i] = interaction_matrix'[i][j]

C11_AdditiveLedger == [][C11_Step]_vars

C11_Witness ==
    /\ mode = "batch" /\ pc = "build" /\ course_idx = 3
    /\ \E i \in students : \E j \in students : i # j /\ interaction_matrix[i][j] = 2
    /\ \E i \in students : \E j \in students : i # j /\ interaction_matrix[i][j] = 0

\* the number of courses of the prior CSV in which students i and j were
\* put into one group
SessionsTogether(i, j) ==
    Cardinality({c \in PriorCourses :
        <<c, IF i < j THEN i ELSE j, IF i < j THEN j ELSE i>> \in prior_sessions})

\* C12: after seeding from any sequence of historical records, M[i][j] of
\* two distinct roster students is the number of sessions in which the two
\* appear in one group (records naming a student that is not in the roster
\* change no pair of roster students).
C12_SeedCountsSessions ==
    (mode = "incremental" /\ pc \in {"seed", "ready"}) =>
        \A i \in students : \A j \in students :
            i # j => interaction_matrix[i][j] = SessionsTogether(i, j)

\* the pairs i < j that assignment x puts into one group
CoGrouped(x) ==
    {p \in (DOMAIN x) \X (DOMAIN x) :
        p[1] < p[2] /\ \E g \in DOMAIN x[p[1]] : x[p[1]][g] = 1 /\ x[p[2]][g] = 1}

\* C13: for a session built on ledger M, the objective value of every
\* feasible assignment is the number of co-grouped pairs i < j with
\* M[i][j] = 0, minus penalty_weight times the number of co-grouped pairs
\* with M[i][j] >= penalty_threshold (both sides times penalty_weight.den); a
\* co-grouped pair with 0 < M[i][j] < penalty_threshold contributes nothing.
C13_ObjectiveFromLedger ==
    (model.built /\ result.status = "ok") =>
        ObjectiveValue(result.x, model)
            = penalty_weight.den
                  * Cardinality({p \in CoGrouped(result.x) :
                                    model.ledger[p[1]][p[2]] = 0})
              - penalty_weight.num
                  * Cardinality({p \in CoGrouped(result.x) :
                                    model.ledger[p[1]][p[2]] >= cfg.penalty_threshold})

\* the solver returned an assignment whose only co-grouped pair has met once
\* before: under threshold 3 the objective is 0
C13_Witness ==
    /\ mode = "batch" /\ pc = "update" /\ result.status = "ok"
    /\ CoGrouped(result.x) # {}
    /\ \A p \in CoGrouped(result.x) : model.ledger[p[1]][p[2]] = 1
    /\ ObjectiveValue(result.x, model) = 0

====
